---- MODULE Spec2Model ----
(***************************************************************************)
(* A model of the two data pipelines of nhl-dashboard-vercel:              *)
(*   - src/app.py: compute_standings_from_csv / api_standings, the         *)
(*     standings table folded from the per-game, per-team rows of a CSV;   *)
(*   - src/getGames.py: fetch_games_for_date / fetch_games, the schedule   *)
(*     snapshot of today and tomorrow.                                     *)
(*                                                                         *)
(* Python values are modelled as follows.  None is the string None below,  *)
(* a CSV text field is a string, the MATCHUP field is the list of tokens   *)
(* str.split() yields for it (<<>> for None and for ""), a dict with       *)
(* insertion order is a sequence of records, and the win percentage        *)
(* wins / games_played is the pair <<wins, games_played>>, compared by     *)
(* cross-multiplication (IEEE division is correctly rounded, so for these  *)
(* small integers two floats compare as the two fractions do).             *)
(***************************************************************************)
EXTENDS Integers, Sequences, FiniteSets, TLC

VARIABLES
    pc,             \* position in compute_standings_from_csv / api_standings
    cur,            \* team_rows of the current iteration of the game loop
    ngames,         \* number of game groups iterated so far
    team_stats,     \* the dict team_id -> stats, in insertion order
    bidx,           \* number of team_stats entries already turned into rows
    rows_final,     \* rows_final
    warnings,       \* warnings
    exc,            \* TRUE once the except clause of line 229 has run
    response,       \* the JSON body api_standings returns
    all_identified, \* history: every pair iterated so far carried TEAM_ID and
                    \* TEAM_ABBREVIATION on both rows
    gpc,            \* position in fetch_games
    day,            \* the date being fetched ("today" / "tomorrow")
    graw,           \* the raw game g of the current loop iteration
    games_list,     \* games_list of the running fetch_games_for_date
    today_games,    \* today_games
    tomorrow_games, \* tomorrow_games
    sched_failed,   \* history: the dates whose schedule request failed
    ls_failed,      \* history: the game ids whose linescore request failed
    out             \* the dict fetch_games returns

svars == <<pc, cur, ngames, team_stats, bidx, rows_final, warnings, exc,
           response, all_identified>>
gvars == <<gpc, day, graw, games_list, today_games, tomorrow_games,
           sched_failed, ls_failed, out>>
vars == <<pc, cur, ngames, team_stats, bidx, rows_final, warnings, exc,
          response, all_identified, gpc, day, graw, games_list, today_games,
          tomorrow_games, sched_failed, ls_failed, out>>

\* ------------------------------------------------------------------ bounds

\* Game groups the loop of line 131 iterates in one run.
MaxGames == 2

\* ------------------------------------------------------------ Python values

None == "<None>"

\* Python truthiness of a CSV text field: `not v` for None and "".
Falsy(v) == v = None \/ v = ""

\* ----------------------------------------------------------------- inputs

\* The teams of the modelled CSV: TEAM_ID, TEAM_ABBREVIATION, TEAM_NAME.
Teams ==
    { [id |-> "1", tri |-> "BOS", name |-> "AB"],
      [id |-> "2", tri |-> "NYR", name |-> "A"],
      [id |-> "3", tri |-> "TOR", name |-> None] }

\* GOALS texts: unparsable text, the empty field, and two numbers.
GoalTexts == {"N/A", "", "1", "2"}

\* The MATCHUP texts written for the rows of teams s and t, as token lists:
\* "S @ T", "T @ S", "S vs. T" and the empty field.
Matchups(s, t) ==
    { <<s.tri, "@", t.tri>>, <<t.tri, "@", s.tri>>, <<s.tri, "vs.", t.tri>>, <<>> }

\* <<TEAM_ID of the first row, TEAM_ABBREVIATION of the second row>>: both
\* present, the first row's id empty, or the second row's code missing.
Identities(s, t) == { <<s.id, t.tri>>, <<"", t.tri>>, <<s.id, None>> }

CsvRow(t, id, tri, goals, matchup) ==
    [ TEAM_ID |-> id, TEAM_ABBREVIATION |-> tri, TEAM_NAME |-> t.name,
      GOALS |-> goals, MATCHUP |-> matchup ]

PairsOf(s, t) ==
    { << CsvRow(s, d[1], s.tri, gs, m), CsvRow(t, t.id, d[2], gt, m) >> :
        gs \in GoalTexts, gt \in GoalTexts, m \in Matchups(s, t),
        d \in Identities(s, t) }

\* The groups games.items() can yield for one game id: the two rows of a game
\* (each ordered pair of distinct teams, so both row orders occur), or a lone
\* row of a game id that was seen once.
GameGroups ==
    UNION { PairsOf(p[1], p[2]) : p \in { q \in Teams \X Teams : q[1] # q[2] } }
    \cup { << CsvRow(t, t.id, t.tri, "1", <<>>) >> : t \in Teams }

\* ------------------------------------------------- compute_standings_from_csv

\* int(text) for the texts of the model; a text outside the table raises
\* ValueError.
IntOf == [ s \in {"0", "1", "2", "3"} |->
             IF s = "0" THEN 0 ELSE IF s = "1" THEN 1 ELSE IF s = "2" THEN 2 ELSE 3 ]

\* int(row.get("GOALS") or 0): [err |-> TRUE] stands for the ValueError.
ParseGoals(v) ==
    IF Falsy(v) THEN [err |-> FALSE, val |-> 0]
    ELSE IF v \in DOMAIN IntOf THEN [err |-> FALSE, val |-> IntOf[v]]
    ELSE [err |-> TRUE, val |-> 0]

\* a.get("MATCHUP") or b.get("MATCHUP") or "", then .split()
MatchupParts(a, b) == IF a.MATCHUP # <<>> THEN a.MATCHUP ELSE b.MATCHUP

\* HomeAwayCodes with "X @ Y" read like "X vs. Y": the first token as home code.
HomeAwayCodesFirstIsHome(a, b) ==
    LET parts == MatchupParts(a, b) IN
    IF Len(parts) >= 3
    THEN << parts[1], parts[Len(parts)] >>
    ELSE << a.TEAM_ABBREVIATION, b.TEAM_ABBREVIATION >>

\* <<home_code, away_code>> of lines 138-147
HomeAwayCodes(a, b) ==
    LET parts == MatchupParts(a, b) IN
    IF \E i \in DOMAIN parts : parts[i] = "@"
    THEN << parts[Len(parts)], parts[1] >>
    ELSE IF Len(parts) >= 3
         THEN << parts[1], parts[Len(parts)] >>
         ELSE << a.TEAM_ABBREVIATION, b.TEAM_ABBREVIATION >>

\* rows_by_code.get(code) or default: the dict comprehension keeps the later
\* row of two rows with one code.
RowByCode(a, b, code, default) ==
    IF b.TEAM_ABBREVIATION = code THEN b
    ELSE IF a.TEAM_ABBREVIATION = code THEN a
    ELSE default

HomeRow(a, b) == RowByCode(a, b, HomeAwayCodes(a, b)[1], a)
AwayRow(a, b) == RowByCode(a, b, HomeAwayCodes(a, b)[2], b)

\* Outcome with both sides of a home win marked "W".
OutcomeBothWin(home_pts, away_pts) ==
    IF home_pts > away_pts THEN <<"W", "W">>
    ELSE IF home_pts < away_pts THEN <<"L", "W">>
    ELSE <<>>

\* Outcome with `>=` for `>`: equal totals count as a home win.
OutcomeTieIsHomeWin(home_pts, away_pts) ==
    IF home_pts >= away_pts THEN <<"W", "L">>
    ELSE <<"L", "W">>

\* <<home_result, away_result>> of lines 159-164; <<>> is the `continue`.
Outcome(home_pts, away_pts) ==
    IF home_pts > away_pts THEN <<"W", "L">>
    ELSE IF home_pts < away_pts THEN <<"L", "W">>
    ELSE <<>>

\* OnValueError without the except clause of line 156: the ValueError leaves
\* the loop body.
ValueErrorEscapes == [raised |-> TRUE, events |-> <<>>]

\* `except ValueError: continue` (lines 156-157): the error is not raised
\* further and the pair yields nothing.
OnValueError == [raised |-> FALSE, events |-> <<>>]

\* The (row, is_home, result) triples the loop of line 166 runs over: none when
\* a goal total raises ValueError (line 156) or the totals are equal (line 164).
\* raised tells whether an exception leaves the loop body.
GameEvents(a, b) ==
    LET hr == HomeRow(a, b)
        ar == AwayRow(a, b)
        hp == ParseGoals(hr.GOALS)
        ap == ParseGoals(ar.GOALS)
    IN  IF hp.err \/ ap.err THEN OnValueError
        ELSE LET res == Outcome(hp.val, ap.val) IN
             [ raised |-> FALSE,
               events |->
                 IF res = <<>> THEN <<>>
                 ELSE << [row |-> hr, is_home |-> TRUE,  result |-> res[1]],
                         [row |-> ar, is_home |-> FALSE, result |-> res[2]] >> ]

\* The fresh record of get_stats.
NewStats(team_id, tricode, name) ==
    [ key |-> team_id, tricode |-> tricode, team |-> name,
      wins |-> 0, losses |-> 0, home_w |-> 0, home_l |-> 0,
      away_w |-> 0, away_l |-> 0,
      results |-> <<>>, home_results |-> <<>>, away_results |-> <<>> ]

\* Position of team_id in the dict, 0 when it has no entry.
IndexOf(stats, team_id) ==
    IF \E i \in DOMAIN stats : stats[i].key = team_id
    THEN CHOOSE i \in DOMAIN stats : stats[i].key = team_id
    ELSE 0

\* get_stats: the dict with an entry for team_id, created at the end if missing.
GetStats(stats, team_id, tricode, name) ==
    IF IndexOf(stats, team_id) = 0
    THEN Append(stats, NewStats(team_id, tricode, name))
    ELSE stats

\* Count with every loss booked as a road loss, whatever is_home says.
CountLossOnRoad(s, is_home, result) ==
    [ s EXCEPT
        !.wins   = IF result = "W" THEN @ + 1 ELSE @,
        !.losses = IF result = "W" THEN @ ELSE @ + 1,
        !.home_w = IF result = "W" /\ is_home THEN @ + 1 ELSE @,
        !.away_w = IF result = "W" /\ ~is_home THEN @ + 1 ELSE @,
        !.away_l = IF result # "W" THEN @ + 1 ELSE @,
        !.results = Append(@, result),
        !.home_results = IF is_home THEN Append(@, result) ELSE @,
        !.away_results = IF is_home THEN @ ELSE Append(@, result) ]

\* Lines 178-195 on one record.
Count(s, is_home, result) ==
    [ s EXCEPT
        !.wins   = IF result = "W" THEN @ + 1 ELSE @,
        !.losses = IF result = "W" THEN @ ELSE @ + 1,
        !.home_w = IF result = "W" /\ is_home THEN @ + 1 ELSE @,
        !.away_w = IF result = "W" /\ ~is_home THEN @ + 1 ELSE @,
        !.home_l = IF result # "W" /\ is_home THEN @ + 1 ELSE @,
        !.away_l = IF result # "W" /\ ~is_home THEN @ + 1 ELSE @,
        !.results = Append(@, result),
        !.home_results = IF is_home THEN Append(@, result) ELSE @,
        !.away_results = IF is_home THEN @ ELSE Append(@, result) ]

\* One iteration of the loop of line 166: skipped when the row has no TEAM_ID
\* or no TEAM_ABBREVIATION.
FoldEvent(stats, ev) ==
    LET tid == ev.row.TEAM_ID
        tri == ev.row.TEAM_ABBREVIATION
    IN  IF Falsy(tid) \/ Falsy(tri) THEN stats
        ELSE LET st == GetStats(stats, tid, tri, ev.row.TEAM_NAME)
                 i  == IndexOf(st, tid)
             IN  [ st EXCEPT ![i] = Count(@, ev.is_home, ev.result) ]

RECURSIVE FoldEvents(_, _)
FoldEvents(stats, evs) ==
    IF evs = <<>> THEN stats
    ELSE FoldEvents(FoldEvent(stats, Head(evs)), Tail(evs))

\* The body of the loop of line 131 for one group of rows.
FoldGame(stats, team_rows) ==
    IF Len(team_rows) # 2 THEN [raised |-> FALSE, stats |-> stats]
    ELSE LET ge == GameEvents(team_rows[1], team_rows[2]) IN
         [ raised |-> ge.raised,
           stats |-> IF ge.raised THEN stats ELSE FoldEvents(stats, ge.events) ]

\* StreakCount without the `break` of line 60: every element equal to the last
\* one is counted.
RECURSIVE StreakCountNoBreak(_, _, _)
StreakCountNoBreak(results, last, i) ==
    IF i = 0 THEN 0
    ELSE (IF results[i] = last THEN 1 ELSE 0) + StreakCountNoBreak(results, last, i - 1)

\* compute_streak: the run of elements equal to results[-1], counted from the
\* end (the loop of line 56, position i and downwards).
RECURSIVE StreakCount(_, _, _)
StreakCount(results, last, i) ==
    IF i = 0 THEN 0
    ELSE IF results[i] = last THEN 1 + StreakCount(results, last, i - 1)
    ELSE 0

\* f"{sign}{count}" is the pair <<sign, count>>, the empty string is <<>>.
compute_streak(results) ==
    IF results = <<>> THEN <<>>
    ELSE LET last == results[Len(results)] IN
         << IF last = "W" THEN "+" ELSE "-",
            StreakCount(results, last, Len(results)) >>

\* The row of lines 198-222 for one record of team_stats.
StandingsRow(s) ==
    LET games_played == s.wins + s.losses IN
    [ key |-> s.key, tricode |-> s.tricode, team |-> s.team,
      wins |-> s.wins, losses |-> s.losses,
      win_pct |-> IF games_played # 0 THEN <<s.wins, games_played>> ELSE <<0, 1>>,
      home_w |-> s.home_w, home_l |-> s.home_l,
      road_w |-> s.away_w, road_l |-> s.away_l,
      streak |-> compute_streak(s.results),
      streak_home |-> compute_streak(s.home_results),
      streak_away |-> compute_streak(s.away_results) ]

\* The code points of the team names of the model.
CharsOf == [ n \in {"", "A", "AB", "B"} |->
               IF n = "" THEN <<>> ELSE IF n = "A" THEN <<65>>
               ELSE IF n = "AB" THEN <<65, 66>> ELSE <<66>> ]

\* r["team"] or ""
NameKey(r) == IF Falsy(r.team) THEN CharsOf[""] ELSE CharsOf[r.team]

\* Python's str <: by the first differing code point, a proper prefix first.
RECURSIVE StrLess(_, _)
StrLess(s, t) ==
    IF t = <<>> THEN FALSE
    ELSE IF s = <<>> THEN TRUE
    ELSE IF Head(s) # Head(t) THEN Head(s) < Head(t)
    ELSE StrLess(Tail(s), Tail(t))

\* float <, == on two win percentages
PctLess(p, q) == p[1] * q[2] < q[1] * p[2]
PctEq(p, q) == p[1] * q[2] = q[1] * p[2]

\* KeyLess with the key (-win_pct, name): the wins tie-break is left out.
KeyLessWithoutWins(r1, r2) ==
    IF ~PctEq(r1.win_pct, r2.win_pct) THEN PctLess(r2.win_pct, r1.win_pct)
    ELSE StrLess(NameKey(r1), NameKey(r2))

\* (-r1.win_pct, -r1.wins, name1) < (-r2.win_pct, -r2.wins, name2), the tuple
\* comparison of the sort key of line 226.
KeyLess(r1, r2) ==
    IF ~PctEq(r1.win_pct, r2.win_pct) THEN PctLess(r2.win_pct, r1.win_pct)
    ELSE IF r1.wins # r2.wins THEN r1.wins > r2.wins
    ELSE StrLess(NameKey(r1), NameKey(r2))

\* list.sort(key=...) is stable: r goes before the first row its key is less than.
RECURSIVE InsertRow(_, _)
InsertRow(sorted, r) ==
    IF sorted = <<>> THEN <<r>>
    ELSE IF KeyLess(r, Head(sorted)) THEN <<r>> \o sorted
    ELSE <<Head(sorted)>> \o InsertRow(Tail(sorted), r)

RECURSIVE SortRowsFrom(_, _)
SortRowsFrom(sorted, rows) ==
    IF rows = <<>> THEN sorted
    ELSE SortRowsFrom(InsertRow(sorted, Head(rows)), Tail(rows))

SortedRows(rows) == SortRowsFrom(<<>>, rows)

\* Both rows of a pair carry TEAM_ID and TEAM_ABBREVIATION.
Identified(team_rows) ==
    \A i \in DOMAIN team_rows :
        ~Falsy(team_rows[i].TEAM_ID) /\ ~Falsy(team_rows[i].TEAM_ABBREVIATION)

\* The warning of the except clause, line 230.
ErrWarning == "Erro ao processar CSV de standings"

\* RowsAfterError without line 231: the rows built so far are returned.
RowsKeptAfterError(rows) == rows

\* What the except clause leaves in rows_final (line 231).
RowsAfterError(rows) == <<>>

\* select_csv_path and lines 89-93: the NHL file exists; or only the legacy
\* file, or none, and then the function returns its warning at once.
SelectCsv ==
    /\ pc = "start"
    /\ \E found \in {"nhl", "legacy", "none"} :
         IF found = "nhl"
         THEN /\ pc' = "games"
              /\ warnings' = <<>>
         ELSE /\ pc' = "return"
              /\ warnings' = << IF found = "legacy" THEN "CSV NHL nao encontrado"
                                ELSE "CSV nao encontrado" >>
    /\ UNCHANGED <<cur, ngames, team_stats, bidx, rows_final, exc, response,
                   all_identified>>
    /\ UNCHANGED gvars

\* `for gid, team_rows in games.items()` (line 131) binds the next group; the
\* grouped rows are the input.
NextGame ==
    /\ pc = "games"
    /\ ngames < MaxGames
    /\ \E team_rows \in GameGroups : cur' = team_rows
    /\ ngames' = ngames + 1
    /\ pc' = "body"
    /\ UNCHANGED <<team_stats, bidx, rows_final, warnings, exc, response,
                   all_identified>>
    /\ UNCHANGED gvars

\* The loop body, lines 132-195, on team_rows; an exception that leaves it is
\* handled by the except clause of lines 229-231.
GameBody ==
    /\ pc = "body"
    /\ LET r == FoldGame(team_stats, cur) IN
         IF r.raised
         THEN /\ warnings' = Append(warnings, ErrWarning)
              /\ rows_final' = RowsAfterError(rows_final)
              /\ exc' = TRUE
              /\ pc' = "return"
              /\ UNCHANGED team_stats
         ELSE /\ team_stats' = r.stats
              /\ pc' = "counted"
              /\ UNCHANGED <<rows_final, warnings, exc>>
    /\ all_identified' = (all_identified /\ Identified(cur))
    /\ UNCHANGED <<cur, ngames, bidx, response>>
    /\ UNCHANGED gvars

\* Back to the loop header; team_rows is dead until it is bound again.
Continue ==
    /\ pc = "counted"
    /\ cur' = <<>>
    /\ pc' = "games"
    /\ UNCHANGED <<ngames, team_stats, bidx, rows_final, warnings, exc,
                   response, all_identified>>
    /\ UNCHANGED gvars

\* games.items() is exhausted: on to the loop of line 197.
EndGames ==
    /\ pc = "games"
    /\ pc' = "rows"
    /\ UNCHANGED <<cur, ngames, team_stats, bidx, rows_final, warnings, exc,
                   response, all_identified>>
    /\ UNCHANGED gvars

\* One iteration of `for team_id, s in team_stats.items()` (lines 197-223).
BuildRow ==
    /\ pc = "rows"
    /\ bidx < Len(team_stats)
    /\ rows_final' = Append(rows_final, StandingsRow(team_stats[bidx + 1]))
    /\ bidx' = bidx + 1
    /\ UNCHANGED <<pc, cur, ngames, team_stats, warnings, exc, response,
                   all_identified>>
    /\ UNCHANGED gvars

\* rows_final.sort(...) of line 225, and the function is about to return.
SortRows ==
    /\ pc = "rows"
    /\ bidx = Len(team_stats)
    /\ rows_final' = SortedRows(rows_final)
    /\ pc' = "return"
    /\ UNCHANGED <<cur, ngames, team_stats, bidx, warnings, exc, response,
                   all_identified>>
    /\ UNCHANGED gvars

\* An exception raised in the try block (lines 95-227) while the file is read,
\* between two games, or while the rows are built and sorted (an I/O or
\* decoding error, a failure of the runtime): the except clause of lines 229-231.
Fail ==
    /\ pc \in {"games", "counted", "rows"}
    /\ warnings' = Append(warnings, ErrWarning)
    /\ rows_final' = RowsAfterError(rows_final)
    /\ exc' = TRUE
    /\ pc' = "return"
    /\ UNCHANGED <<cur, ngames, team_stats, bidx, response, all_identified>>
    /\ UNCHANGED gvars

\* api_standings, lines 288-290, on what compute_standings_from_csv returned.
ApiStandings ==
    /\ pc = "return"
    /\ response' = [ok |-> rows_final # <<>>, rows |-> rows_final,
                    warnings |-> warnings]
    /\ pc' = "done"
    /\ UNCHANGED <<cur, ngames, team_stats, bidx, rows_final, warnings, exc,
                   all_identified>>
    /\ UNCHANGED gvars

NoResponse == [ok |-> FALSE, rows |-> <<>>, warnings |-> <<>>]

GamesIdle ==
    /\ gpc = "idle"
    /\ day = "today"
    /\ graw = <<>>
    /\ games_list = <<>>
    /\ today_games = <<>>
    /\ tomorrow_games = <<>>
    /\ sched_failed = {}
    /\ ls_failed = {}
    /\ out = <<>>

\* A request to /api/standings arrives.
Init ==
    /\ pc = "start"
    /\ cur = <<>>
    /\ ngames = 0
    /\ team_stats = <<>>
    /\ bidx = 0
    /\ rows_final = <<>>
    /\ warnings = <<>>
    /\ exc = FALSE
    /\ response = NoResponse
    /\ all_identified = TRUE
    /\ GamesIdle

Next ==
    \/ SelectCsv
    \/ NextGame
    \/ GameBody
    \/ Continue
    \/ EndGames
    \/ BuildRow
    \/ SortRows
    \/ Fail
    \/ ApiStandings

Spec == Init /\ [][Next]_vars

\* ------------------------------------------------ the table of known records

\* A record of team_stats as the fold leaves it after a team's events
\* <<result, is_home>>, in processing order.
RECURSIVE StatsAfter(_, _)
StatsAfter(s, evs) ==
    IF evs = <<>> THEN s
    ELSE StatsAfter(Count(s, Head(evs)[2], Head(evs)[1]), Tail(evs))

\* The event sequences of a team with w wins and l losses, all at home.
WinsLosses(w, l) == [ i \in 1..(w + l) |-> << IF i <= w THEN "W" ELSE "L", TRUE >> ]

\* Largest number of wins, and of losses, of a team of SpecSort.
MaxRecord == 2

\* Longest result sequence of the team of SpecStreak.
MaxResults == 4

TableNames == {None, "A", "AB"}

\* The records a team can have in SpecSort: any name, any wins and losses
\* (at least one game: a record is created by its first event).
SortStats(key) ==
    { StatsAfter(NewStats(key, "BOS", n), WinsLosses(wl[1], wl[2])) :
        n \in TableNames,
        wl \in { p \in (0..MaxRecord) \X (0..MaxRecord) : p[1] + p[2] >= 1 } }

StandingsIdle(at) ==
    /\ pc = at
    /\ cur = <<>>
    /\ ngames = 0
    /\ bidx = 0
    /\ rows_final = <<>>
    /\ warnings = <<>>
    /\ exc = FALSE
    /\ response = NoResponse
    /\ all_identified = TRUE

\* compute_standings_from_csv at line 197, with one to three teams on record.
InitSort ==
    /\ StandingsIdle("rows")
    /\ \E s1 \in SortStats("1"), s2 \in SortStats("2"), s3 \in SortStats("3") :
         team_stats \in { <<s1>>, <<s1, s2>>, <<s1, s2, s3>> }
    /\ GamesIdle

NextTable ==
    \/ BuildRow
    \/ SortRows
    \/ ApiStandings

SpecSort == InitSort /\ [][NextTable]_vars

ResultSeqs(n) == UNION { [1..k -> {"W", "L"} \X BOOLEAN] : k \in 1..n }

\* compute_standings_from_csv at line 197, with one team on record whose
\* events were any sequence of home and road wins and losses.
InitStreak ==
    /\ StandingsIdle("rows")
    /\ \E evs \in ResultSeqs(MaxResults) :
         team_stats = << StatsAfter(NewStats("1", "BOS", "A"), evs) >>
    /\ GamesIdle

SpecStreak == InitStreak /\ [][NextTable]_vars

\* ------------------------------------------------------------- getGames.py

\* Games of one date in the schedule feed.
MaxGamesPerDay == 2

\* statusCode values of the feed; None is a game without a status code.
StatusCodes == {"1", "2", "3", "4", "5", "6", "7", None}

\* g.get("status", {}).get("statusCode", "0")
StatusCodeOf(g) == IF g.statusCode = None THEN "0" ELSE g.statusCode

\* NormalStatus as the comment of line 105 reads: 1/2/3 pre, 4 live.
NormalStatusOfComment(status_code) ==
    IF status_code \in {"1", "2", "3"} THEN 1
    ELSE IF status_code \in {"4"} THEN 2
    ELSE 3

\* Lines 106-111: 1 scheduled, 2 live, 3 final/other.
NormalStatus(status_code) ==
    IF status_code \in {"1", "2"} THEN 1
    ELSE IF status_code \in {"3", "4"} THEN 2
    ELSE 3

\* fetch_linescore: <<period, clock>> of the response, or <<None, None>> when
\* the request or its decoding raised.
fetch_linescore(response_ok) ==
    IF response_ok THEN <<"1", "12:34">> ELSE <<None, None>>

\* The dict appended at lines 124-135 (the team blocks and the pass-through
\* texts left out).
Snapshot(g, linescore) ==
    [ game_id |-> g.gamePk, status |-> NormalStatus(StatusCodeOf(g)),
      period |-> linescore[1], clock |-> linescore[2] ]

\* The gamePk of the i-th game of a date.
GamePk(d, i) == IF d = "today" THEN 100 + i ELSE 200 + i

\* fetch_games_for_date returns `games`: lines 150-151 of fetch_games.
Returned(games) ==
    /\ IF day = "today"
       THEN /\ today_games' = games
            /\ day' = "tomorrow"
            /\ gpc' = "fetch"
            /\ UNCHANGED tomorrow_games
       ELSE /\ tomorrow_games' = games
            /\ gpc' = "bucket"
            /\ UNCHANGED <<today_games, day>>
    /\ games_list' = <<>>
    /\ graw' = <<>>

\* Lines 83-96: the schedule request fails, or has no dates, or has games.
FetchSchedule ==
    /\ gpc = "fetch"
    /\ \E res \in {"error", "nodates", "games"} :
         /\ sched_failed' = IF res = "error" THEN sched_failed \cup {day}
                            ELSE sched_failed
         /\ IF res = "games"
            THEN /\ gpc' = "loop"
                 /\ UNCHANGED <<day, graw, games_list, today_games, tomorrow_games>>
            ELSE Returned(<<>>)
    /\ UNCHANGED <<ls_failed, out>>
    /\ UNCHANGED svars

\* One iteration of `for g in games_raw` (lines 99-135).
NormalizeGame ==
    /\ gpc = "loop"
    /\ Len(games_list) < MaxGamesPerDay
    /\ \E code \in StatusCodes, response_ok \in BOOLEAN :
         LET g == [gamePk |-> GamePk(day, Len(games_list) + 1), statusCode |-> code] IN
         /\ graw' = g
         /\ games_list' = Append(games_list, Snapshot(g, fetch_linescore(response_ok)))
         /\ ls_failed' = IF response_ok THEN ls_failed ELSE ls_failed \cup {g.gamePk}
    /\ UNCHANGED <<gpc, day, today_games, tomorrow_games, sched_failed, out>>
    /\ UNCHANGED svars

\* games_raw is exhausted: return games_list (line 137).
EndDate ==
    /\ gpc = "loop"
    /\ Returned(games_list)
    /\ UNCHANGED <<sched_failed, ls_failed, out>>
    /\ UNCHANGED svars

\* TomorrowUpcoming with `!= 3` for `== 1`: tomorrow's live games pass too.
TomorrowNotFinal(tomorrow) == SelectSeq(tomorrow, LAMBDA g : g.status # 3)

\* Lines 153-155.
LiveGames(today) == SelectSeq(today, LAMBDA g : g.status = 2)
TodayUpcoming(today) == SelectSeq(today, LAMBDA g : g.status = 1)
TomorrowUpcoming(tomorrow) == SelectSeq(tomorrow, LAMBDA g : g.status = 1)

\* The dict of lines 157-164 (generated_at_utc left out).
GamesOutput(today, tomorrow) ==
    [ ok |-> TRUE,
      live_games |-> LiveGames(today),
      today_upcoming |-> TodayUpcoming(today),
      tomorrow_upcoming |-> TomorrowUpcoming(tomorrow),
      warnings |-> <<>> ]

Buckets ==
    /\ gpc = "bucket"
    /\ out' = GamesOutput(today_games, tomorrow_games)
    /\ gpc' = "done"
    /\ UNCHANGED <<day, graw, games_list, today_games, tomorrow_games,
                   sched_failed, ls_failed>>
    /\ UNCHANGED svars

\* fetch_games is called.
InitGames ==
    /\ StandingsIdle("idle")
    /\ team_stats = <<>>
    /\ gpc = "fetch"
    /\ day = "today"
    /\ graw = <<>>
    /\ games_list = <<>>
    /\ today_games = <<>>
    /\ tomorrow_games = <<>>
    /\ sched_failed = {}
    /\ ls_failed = {}
    /\ out = <<>>

NextGames ==
    \/ FetchSchedule
    \/ NormalizeGame
    \/ EndDate
    \/ Buckets

SpecGames == InitGames /\ [][NextGames]_vars

\* ------------------------------------------------------------------ claims

RECURSIVE SumOf(_, _)
SumOf(seq, field) ==
    IF seq = <<>> THEN 0 ELSE seq[1][field] + SumOf(Tail(seq), field)

\* A step of the loop body on a pair of rows.
BodyStep == pc = "body" /\ Len(cur) = 2

\* C1 as stated: after any collection of game rows has been processed, the sum
\* of wins over all teams equals the sum of losses over all teams.
C1_SumsAlwaysAgree ==
    SumOf(team_stats, "wins") = SumOf(team_stats, "losses")

\* C1, amended: the sum of wins over all teams equals the sum of losses, in the
\* running records and in the returned table, as long as both rows of every
\* processed pair carry a team id and a team code (a row without one is skipped
\* alone, and the other side's result is still counted).
C1_SumsAgreeWhenIdentified ==
    all_identified =>
        /\ SumOf(team_stats, "wins") = SumOf(team_stats, "losses")
        /\ (pc \in {"return", "done"} /\ ~exc) =>
              SumOf(rows_final, "wins") = SumOf(rows_final, "losses")

C1_Witness ==
    /\ pc = "done"
    /\ all_identified
    /\ ~exc
    /\ SumOf(response.rows, "wins") = 2
    /\ SumOf(response.rows, "losses") = 2

\* The GOALS text of some row of the pair is not the text of an integer.
NonNumericGoals(team_rows) ==
    \E i \in DOMAIN team_rows : team_rows[i].GOALS \notin {"", None, "0", "1", "2", "3"}

\* The GOALS text of some row of the pair is empty or missing.
EmptyGoals(team_rows) ==
    \E i \in DOMAIN team_rows : team_rows[i].GOALS \in {"", None}

\* Games on record for team_id.
GamesOf(stats, team_id) ==
    IF \E i \in DOMAIN stats : stats[i].key = team_id
    THEN LET s == stats[CHOOSE i \in DOMAIN stats : stats[i].key = team_id]
         IN  s.wins + s.losses
    ELSE 0

\* Two complete rows of two teams with two different integer goal totals.
ValidPair(team_rows) ==
    /\ Len(team_rows) = 2
    /\ \A i \in 1..2 :
         /\ team_rows[i].GOALS \in {"0", "1", "2", "3"}
         /\ team_rows[i].TEAM_ID \notin {"", None}
         /\ team_rows[i].TEAM_ABBREVIATION \notin {"", None}
    /\ team_rows[1].GOALS # team_rows[2].GOALS
    /\ team_rows[1].TEAM_ID # team_rows[2].TEAM_ID
    /\ team_rows[1].TEAM_ABBREVIATION # team_rows[2].TEAM_ABBREVIATION

\* Two complete rows of two teams, one with an empty or missing goal total and
\* the other with a positive one.
EmptyAgainstGoals(team_rows) ==
    /\ Len(team_rows) = 2
    /\ \A i \in 1..2 :
         /\ team_rows[i].TEAM_ID \notin {"", None}
         /\ team_rows[i].TEAM_ABBREVIATION \notin {"", None}
    /\ team_rows[1].TEAM_ID # team_rows[2].TEAM_ID
    /\ team_rows[1].TEAM_ABBREVIATION # team_rows[2].TEAM_ABBREVIATION
    /\ \E i \in 1..2 :
         /\ team_rows[i].GOALS \in {"", None}
         /\ team_rows[3 - i].GOALS \in {"1", "2", "3"}

\* C5 as stated: a pair in which either side's goal total is non-numeric text,
\* empty or missing counts no result for either team and raises no error
\* (stated for pairs whose rows both carry a team id and a team code).
C5_UnparsableOrEmptyDiscarded ==
    [][ (BodyStep /\ Identified(cur) /\ (NonNumericGoals(cur) \/ EmptyGoals(cur))) =>
            /\ team_stats' = team_stats
            /\ pc' = "counted" ]_vars

\* C5, amended: a pair in which either side's goal total is non-numeric text
\* (such as "N/A") counts no result for either team and raises no error, and
\* every valid pair is counted for both of its teams whatever was processed
\* before; an empty or missing goal total is not discarded but read as 0, so
\* against a positive total the pair is counted for both teams.
C5_NonNumericDiscarded ==
    [][ BodyStep =>
          /\ NonNumericGoals(cur) =>
                /\ team_stats' = team_stats
                /\ pc' = "counted"
                /\ warnings' = warnings
                /\ exc' = exc
          /\ (ValidPair(cur) \/ EmptyAgainstGoals(cur)) =>
                /\ pc' = "counted"
                /\ \A i \in 1..2 :
                     GamesOf(team_stats', cur[i].TEAM_ID)
                       = GamesOf(team_stats, cur[i].TEAM_ID) + 1 ]_vars

C5_Witness ==
    /\ pc = "counted"
    /\ ngames = 2
    /\ NonNumericGoals(cur)
    /\ Len(team_stats) = 2
    /\ ~exc

\* C6: once an unexpected failure has been caught, compute_standings_from_csv
\* returns the empty table with exactly one warning, the one describing the
\* failure, whatever had been counted or built before, and api_standings
\* answers with ok = false, no rows and that warning.
C6_FailureGivesEmptyTable ==
    exc =>
        /\ pc \in {"return", "done"}
        /\ rows_final = <<>>
        /\ warnings = <<ErrWarning>>
        /\ pc = "done" =>
              /\ response.ok = FALSE
              /\ response.rows = <<>>
              /\ response.warnings = <<ErrWarning>>

C6_Witness ==
    /\ pc = "done"
    /\ exc
    /\ bidx >= 1
    /\ Len(team_stats) >= 2

\* C9: processing a pair of rows with equal goal totals leaves every record as
\* it was and creates none, so every team on record and every row of the table
\* has at least one game that was not tied.
C9_TieChangesNothing ==
    /\ [][ (BodyStep /\ cur[1].GOALS = cur[2].GOALS) =>
              team_stats' = team_stats /\ pc' = "counted" ]_vars
    /\ [](\A i \in DOMAIN team_stats : team_stats[i].wins + team_stats[i].losses >= 1)
    /\ [](\A i \in DOMAIN rows_final : rows_final[i].wins + rows_final[i].losses >= 1)

C9_Witness ==
    /\ pc = "counted"
    /\ ngames = 2
    /\ Len(cur) = 2
    /\ cur[1].GOALS = "1"
    /\ cur[2].GOALS = "1"
    /\ Identified(cur)
    /\ team_stats # <<>>
    /\ \A i \in DOMAIN team_stats : team_stats[i].key # cur[1].TEAM_ID

\* The sort key of a row, as the claim reads it: win percentage, wins, and the
\* code points of the name (a missing name is the empty string).
NameOf(r) == IF r.team \in {"", None} THEN <<>> ELSE CharsOf[r.team]

\* s <= t in lexicographic order: s is a prefix of t, or at the first position
\* where they differ s has the smaller code point.
LexLeq(s, t) ==
    \E k \in 0..Len(s) :
        /\ k <= Len(t)
        /\ \A j \in 1..k : s[j] = t[j]
        /\ \/ k = Len(s)
           \/ (k < Len(t) /\ s[k + 1] < t[k + 1])

SameKeys(r1, r2) ==
    /\ r1.wins * (r2.wins + r2.losses) = r2.wins * (r1.wins + r1.losses)
    /\ r1.wins = r2.wins
    /\ NameOf(r1) = NameOf(r2)

InOrder(r1, r2) ==
    LET p1 == r1.wins * (r2.wins + r2.losses)
        p2 == r2.wins * (r1.wins + r1.losses)
    IN  \/ p1 > p2
        \/ p1 = p2 /\ r1.wins > r2.wins
        \/ p1 = p2 /\ r1.wins = r2.wins /\ LexLeq(NameOf(r1), NameOf(r2))

\* Position of the record of key in team_stats, the first-seen order.
SeenAt(key) == CHOOSE i \in DOMAIN team_stats : team_stats[i].key = key

\* C7: the returned table holds one row per team on record and every two
\* adjacent rows are in order: higher win percentage first, then more wins,
\* then the name in lexicographic order (a missing name as the empty string);
\* rows equal on all three keys keep their first-seen order.
C7_TableSorted ==
    pc \in {"return", "done"} =>
        /\ Len(rows_final) = Len(team_stats)
        /\ \A i \in DOMAIN team_stats : \E j \in DOMAIN rows_final :
              rows_final[j] = StandingsRow(team_stats[i])
        /\ \A i \in 1..(Len(rows_final) - 1) : InOrder(rows_final[i], rows_final[i + 1])
        /\ \A i, j \in DOMAIN rows_final :
              (i < j /\ SameKeys(rows_final[i], rows_final[j])) =>
                  SeenAt(rows_final[i].key) < SeenAt(rows_final[j].key)

C7_Witness ==
    /\ pc = "done"
    /\ Len(response.rows) = 3
    /\ response.rows[1].key = "3"
    /\ response.rows[1].wins = 2
    /\ response.rows[1].losses = 2
    /\ response.rows[2].wins = 1
    /\ response.rows[2].losses = 1
    /\ SameKeys(response.rows[2], response.rows[3])
    /\ response.rows[2].team = "A"

\* st is the streak text of the result sequence seq: empty exactly when seq is
\* empty, else the sign of the last element and the length of the longest run
\* of elements equal to it that ends seq.
IsStreakOf(st, seq) ==
    /\ (st = <<>>) <=> (seq = <<>>)
    /\ seq # <<>> =>
         LET n == Len(seq) IN
         /\ Len(st) = 2
         /\ st[1] = (IF seq[n] = "W" THEN "+" ELSE "-")
         /\ st[2] \in 1..n
         /\ \A j \in (n - st[2] + 1)..n : seq[j] = seq[n]
         /\ st[2] < n => seq[n - st[2]] # seq[n]

\* C8: in every row of the table streak, streak_home and streak_away are the
\* streak texts of the team's overall, home and road result sequences.
C8_StreaksOfSequences ==
    \A i \in DOMAIN rows_final :
        LET r == rows_final[i]
            s == team_stats[SeenAt(r.key)]
        IN  /\ IsStreakOf(r.streak, s.results)
            /\ IsStreakOf(r.streak_home, s.home_results)
            /\ IsStreakOf(r.streak_away, s.away_results)

C8_Witness ==
    /\ pc = "done"
    /\ Len(response.rows) = 1
    /\ team_stats[1].results = <<"W", "L", "W", "W">>
    /\ response.rows[1].streak = <<"+", 2>>
    /\ response.rows[1].streak_home = <<"-", 1>>
    /\ response.rows[1].streak_away = <<"+", 2>>

\* The snapshot the last iteration of the loop appended.
LastSnapshot == games_list[Len(games_list)]

C3_OkReflectsFetches ==
    gpc = "done" => (out.ok <=> sched_failed = {})

\* B holds exactly the games of S with status st, once each, in the order of S.
IsBucketOf(B, S, st) ==
    /\ \A i \in DOMAIN B : \E j \in DOMAIN S : S[j] = B[i] /\ S[j].status = st
    /\ \A j \in DOMAIN S : S[j].status = st => \E i \in DOMAIN B : B[i] = S[j]
    /\ \A i, k \in DOMAIN B : i < k =>
          \E j, l \in DOMAIN S : j < l /\ S[j] = B[i] /\ S[l] = B[k]

BucketIds(B) == { B[i].game_id : i \in DOMAIN B }

\* C4: live_games is today's games with status Live, today_upcoming today's
\* with status Scheduled, tomorrow_upcoming tomorrow's with status Scheduled,
\* each in input order; no Final/Other game and no Live game of tomorrow is in
\* a bucket, and no game is in two buckets.
C4_BucketsPartition ==
    gpc = "done" =>
        /\ IsBucketOf(out.live_games, today_games, 2)
        /\ IsBucketOf(out.today_upcoming, today_games, 1)
        /\ IsBucketOf(out.tomorrow_upcoming, tomorrow_games, 1)
        /\ \A g \in { today_games[i] : i \in DOMAIN today_games }
                 \cup { tomorrow_games[i] : i \in DOMAIN tomorrow_games } :
              g.status = 3 =>
                 g.game_id \notin BucketIds(out.live_games)
                    \cup BucketIds(out.today_upcoming)
                    \cup BucketIds(out.tomorrow_upcoming)
        /\ \A i \in DOMAIN tomorrow_games :
              tomorrow_games[i].status = 2 =>
                 tomorrow_games[i].game_id \notin BucketIds(out.live_games)
                    \cup BucketIds(out.today_upcoming)
                    \cup BucketIds(out.tomorrow_upcoming)
        /\ BucketIds(out.live_games) \cap BucketIds(out.today_upcoming) = {}
        /\ BucketIds(out.live_games) \cap BucketIds(out.tomorrow_upcoming) = {}
        /\ BucketIds(out.today_upcoming) \cap BucketIds(out.tomorrow_upcoming) = {}

C4_Witness ==
    /\ gpc = "done"
    /\ Len(today_games) = 2
    /\ today_games[1].status = 3
    /\ today_games[2].status = 2
    /\ Len(tomorrow_games) = 2
    /\ tomorrow_games[1].status = 2
    /\ tomorrow_games[2].status = 1
    /\ Len(out.live_games) = 1
    /\ Len(out.tomorrow_upcoming) = 1

\* C10: a game whose linescore request failed still has its snapshot, with
\* null period and clock, the games after it are normalized too, and the
\* output of fetch_games carries one warning for each such game id.
C10_WarningPerFailedLinescore ==
    /\ \A i \in DOMAIN games_list :
          games_list[i].game_id \in ls_failed =>
              games_list[i].period = None /\ games_list[i].clock = None
    /\ gpc = "done" =>
          /\ \A id \in ls_failed :
                \E g \in { today_games[i] : i \in DOMAIN today_games }
                       \cup { tomorrow_games[i] : i \in DOMAIN tomorrow_games } :
                   g.game_id = id /\ g.period = None /\ g.clock = None
          /\ Len(out.warnings) = Cardinality(ls_failed)

\* The record of team_id, or a record without games when it has none.
RecOf(stats, team_id) ==
    IF \E i \in DOMAIN stats : stats[i].key = team_id
    THEN stats[CHOOSE i \in DOMAIN stats : stats[i].key = team_id]
    ELSE [ wins |-> 0, losses |-> 0, home_w |-> 0, home_l |-> 0,
           away_w |-> 0, away_l |-> 0,
           results |-> <<>>, home_results |-> <<>>, away_results |-> <<>> ]

\* From before to after, team_id has played one more home game, with result res.
PlayedHome(before, after, team_id, res) ==
    LET o == RecOf(before, team_id)
        n == RecOf(after, team_id)
    IN  /\ n.home_results = Append(o.home_results, res)
        /\ n.away_results = o.away_results
        /\ n.home_w + n.home_l = o.home_w + o.home_l + 1
        /\ n.away_w = o.away_w /\ n.away_l = o.away_l

\* From before to after, team_id has played one more road game, with result res.
PlayedAway(before, after, team_id, res) ==
    LET o == RecOf(before, team_id)
        n == RecOf(after, team_id)
    IN  /\ n.away_results = Append(o.away_results, res)
        /\ n.home_results = o.home_results
        /\ n.away_w + n.away_l = o.away_w + o.away_l + 1
        /\ n.home_w = o.home_w /\ n.home_l = o.home_l

HasAt(m) == \E i \in DOMAIN m : m[i] = "@"

\* Two complete rows with one matchup descriptor and two distinct team codes,
\* which are the first and last token of the descriptor if it has three tokens.
NamedPair(team_rows) ==
    /\ Len(team_rows) = 2
    /\ \A i \in 1..2 :
         /\ team_rows[i].TEAM_ID \notin {"", None}
         /\ team_rows[i].TEAM_ABBREVIATION \notin {"", None}
    /\ team_rows[1].TEAM_ID # team_rows[2].TEAM_ID
    /\ team_rows[1].TEAM_ABBREVIATION # team_rows[2].TEAM_ABBREVIATION
    /\ team_rows[1].MATCHUP = team_rows[2].MATCHUP
    /\ LET m == team_rows[1].MATCHUP IN
       Len(m) >= 3 =>
          {m[1], m[Len(m)]} = {team_rows[1].TEAM_ABBREVIATION,
                               team_rows[2].TEAM_ABBREVIATION}

RowWithCode(team_rows, code) ==
    IF team_rows[1].TEAM_ABBREVIATION = code THEN team_rows[1] ELSE team_rows[2]

\* <<home row, away row>> of a named pair as the claim reads the descriptor:
\* "X @ Y" makes the row of Y home; without "@", three tokens or more make the
\* row of the first token home; otherwise the first row is home.
RolesOf(team_rows) ==
    LET m == team_rows[1].MATCHUP IN
    IF HasAt(m)
    THEN << RowWithCode(team_rows, m[Len(m)]), RowWithCode(team_rows, m[1]) >>
    ELSE IF Len(m) >= 3
         THEN << RowWithCode(team_rows, m[1]), RowWithCode(team_rows, m[Len(m)]) >>
         ELSE << team_rows[1], team_rows[2] >>

\* C11: for a pair of complete rows with distinct team codes, "X @ Y" makes the
\* row of Y the home side and the row of X the road side whichever row comes
\* first, so both row orders leave the same records; a descriptor without "@"
\* and with at least 3 tokens makes its first token the home code and its last
\* the away code; otherwise the first row is home and the second away.  The
\* pair is either discarded or counted as one home game for the home row's team
\* and one road game for the away row's team, and a valid pair is counted with
\* the win on the side with more goals.
C11_HomeAwayFromDescriptor ==
    [][ (BodyStep /\ NamedPair(cur)) =>
          LET h == RolesOf(cur)[1]
              a == RolesOf(cur)[2]
          IN  /\ \/ team_stats' = team_stats
                 \/ \E res \in {<<"W", "L">>, <<"L", "W">>} :
                       /\ PlayedHome(team_stats, team_stats', h.TEAM_ID, res[1])
                       /\ PlayedAway(team_stats, team_stats', a.TEAM_ID, res[2])
              /\ ValidPair(cur) =>
                    LET hw == IntOf[h.GOALS] > IntOf[a.GOALS] IN
                    /\ PlayedHome(team_stats, team_stats', h.TEAM_ID,
                                  IF hw THEN "W" ELSE "L")
                    /\ PlayedAway(team_stats, team_stats', a.TEAM_ID,
                                  IF hw THEN "L" ELSE "W")
              /\ HasAt(cur[1].MATCHUP) =>
                    team_stats' = FoldGame(team_stats, <<cur[2], cur[1]>>).stats ]_vars

\* A valid pair "X @ Y" whose first row is the row of X has been counted: the
\* second row's team has a home win, the first row's team a road loss.
C11_Witness ==
    /\ pc = "counted"
    /\ ngames = 1
    /\ NamedPair(cur)
    /\ ValidPair(cur)
    /\ HasAt(cur[1].MATCHUP)
    /\ cur[1].TEAM_ABBREVIATION = cur[1].MATCHUP[1]
    /\ RecOf(team_stats, cur[2].TEAM_ID).home_results = <<"W">>
    /\ RecOf(team_stats, cur[1].TEAM_ID).away_results = <<"L">>

\* Counters and sequences of one record agree.
Consistent(s) ==
    /\ s.wins + s.losses = Len(s.results)
    /\ s.home_w + s.home_l = Len(s.home_results)
    /\ s.away_w + s.away_l = Len(s.away_results)
    /\ s.wins = s.home_w + s.away_w
    /\ s.losses = s.home_l + s.away_l

AllConsistent(stats) == \A i \in DOMAIN stats : Consistent(stats[i])

\* From before to after every record of another team id is kept as it was,
\* none is deleted, and the only record that may be new is that of team_id.
OnlyOwn(before, after, team_id) ==
    /\ Len(after) >= Len(before)
    /\ Len(after) <= Len(before) + 1
    /\ \A i \in DOMAIN before :
         /\ after[i].key = before[i].key
         /\ before[i].key # team_id => after[i] = before[i]
    /\ \A i \in DOMAIN after : i > Len(before) => after[i].key = team_id

\* C12: after every event folded into a record the counters and sequences of
\* every record agree (wins + losses = length of results, home_w + home_l =
\* length of home_results, away_w + away_l = length of away_results, wins =
\* home_w + away_w, losses = home_l + away_l), between the two events of one
\* game as well as after them, and an event changes only the record of its own
\* team id.
C12_RecordsConsistent ==
    /\ [] AllConsistent(team_stats)
    /\ [][ BodyStep =>
             LET ge == GameEvents(cur[1], cur[2]) IN
             IF ge.raised \/ ge.events = <<>> THEN team_stats' = team_stats
             ELSE LET mid == FoldEvent(team_stats, ge.events[1]) IN
                  /\ AllConsistent(mid)
                  /\ OnlyOwn(team_stats, mid, ge.events[1].row.TEAM_ID)
                  /\ OnlyOwn(mid, team_stats', ge.events[2].row.TEAM_ID)
                  /\ AllConsistent(team_stats') ]_vars

\* After two counted games three teams have records, and the first of them has
\* one home win and one road loss.
C12_Witness ==
    /\ pc = "counted"
    /\ ngames = 2
    /\ Len(team_stats) = 3
    /\ team_stats[1].home_w = 1
    /\ team_stats[1].away_l = 1
    /\ team_stats[1].results = <<"W", "L">>

====
